---- MODULE Spec2Model ----
(***************************************************************************)
(* Model of the TP-LINK IPv6 firewall / DMZ configuration utility          *)
(* (src/main.go).  Three parts of the program are modelled:                *)
(*   - the Settings record: readConfig, sendRequest and the form handler,  *)
(*     one request at a time (SpecSettings);                               *)
(*   - the same handler run by net/http on several connections at once,    *)
(*     one goroutine per connection, statement by statement (SpecRace);    *)
(*   - the process supervisor (safeExecCommand, cleanupProcesses, the      *)
(*     watcher goroutine) together with main's shutdown sequence           *)
(*     (SpecSupervisor).                                                   *)
(* Strings of the source that are not ASCII are written here in English;   *)
(* the comment beside each gives the source line that holds the original.  *)
(***************************************************************************)
EXTENDS Naturals, Sequences, FiniteSets, TLC

VARIABLES
    config,        \* var config Config                       (main.go:32)
    loaded,        \* readConfig has returned                 (main.go:277)
    cfgKind,       \* what readConfig found on disk           (main.go:39-60)
    last,          \* the last request served and its response (SpecSettings)
    h,             \* per connection: the handler goroutine's locals (SpecRace)
    GOOS,          \* runtime.GOOS of the build               (main.go:184)
    childProcess,  \* var childProcess *os.Process, 0 is nil  (main.go:33)
    processGroup,  \* var processGroup int                    (main.go:35)
    mu,            \* var mu sync.Mutex: TRUE when held       (main.go:34)
    lpc,           \* where the caller of openBrowser stands
    launches,      \* number of openBrowser calls made so far
    proc,          \* per spawned process: its state at the OS
    wpc,           \* per spawned process: where its watcher goroutine stands
    mainPc,        \* where main's foreground goroutine stands
    serverQuit,    \* the serverQuit channel is closed        (main.go:285)
    tornDown,      \* processes that cleanupProcesses has killed (history)
    staleActs      \* teardown steps that acted on a reaped process (history)

settingsVars == <<config, loaded, cfgKind, last, h>>
supervisorVars == <<GOOS, childProcess, processGroup, mu, lpc, launches, proc,
                    wpc, mainPc, serverQuit, tornDown, staleActs>>
vars == <<config, loaded, cfgKind, last, h, GOOS, childProcess, processGroup,
          mu, lpc, launches, proc, wpc, mainPc, serverQuit, tornDown, staleActs>>

(***************************************************************************)
(* Strings.  A Go string is modelled as a TLA+ string, except the IPv6     *)
(* firewall flag, which strings.ToLower rewrites character by character    *)
(* and is therefore a sequence of one-character strings.                   *)
(***************************************************************************)
Upper == <<"A", "F", "N", "O", "U", "T">>
Lower == <<"a", "f", "n", "o", "u", "t">>

\* unicode.ToLower on one character of the alphabet used by the inputs
LowerChar(c) ==
    IF \E i \in 1..Len(Upper) : Upper[i] = c
    THEN Lower[CHOOSE i \in 1..Len(Upper) : Upper[i] = c]
    ELSE c

\* strings.ToLower
ToLower(s) == [i \in 1..Len(s) |-> LowerChar(s[i])]

On == <<"o", "n">>
Off == <<"o", "f", "f">>

(***************************************************************************)
(* The Config record and readConfig.                                       *)
(***************************************************************************)
\* The zero value of Config: every field the empty string.
ZeroConfig ==
    [RouterIP |-> "", Stok |-> "", IPv6FirewallEnable |-> <<>>,
     DmzDestIP |-> "", DmzDestIP6 |-> "", ServerPort |-> "", DmzEnable |-> ""]

\* What a key of the JSON object may hold: the key is missing, holds null,
\* holds a value that is not a JSON string (a number, say), or holds a string.
Missing == [tag |-> "missing"]
Null == [tag |-> "null"]
BadType == [tag |-> "badtype"]
Str(s) == [tag |-> "string", val |-> s]

PortValues == {"9090", ""}
DmzFileValues == {"0", "5", ""}
RouterIPs == {"192.168.0.1", ""}

\* The config files tried: no file, a file that cannot be read, a file that is
\* not JSON, JSON that is not an object, and objects over three of the keys.
ConfigSources ==
    {[kind |-> k] : k \in {"absent", "unreadable", "syntax", "nonobject"}}
    \cup
    [kind : {"object"},
     server_port : {Missing, Null, BadType} \cup {Str(s) : s \in PortValues},
     dmz_enable : {Missing, Null, BadType} \cup {Str(s) : s \in DmzFileValues},
     router_ip : {Missing, Str("192.168.0.1")}]

\* encoding/json decoding one key into a string field: a JSON string is
\* stored, null and a missing key leave the field alone, a value of another
\* type is recorded as an UnmarshalTypeError and leaves the field alone.
DecodeField(old, v) == IF v.tag = "string" THEN v.val ELSE old

\* The defaults readConfig sets before it returns or parses.
WithDefaults(cfg) == [cfg EXCEPT !.ServerPort = "8080", !.DmzEnable = "1"]

\* json.Unmarshal(bytes, &config): invalid JSON is rejected before any field
\* is touched; a value that is not an object leaves the record alone.
Unmarshal(cfg, src) ==
    IF src.kind = "object"
    THEN [cfg EXCEPT !.ServerPort = DecodeField(@, src.server_port),
                     !.DmzEnable = DecodeField(@, src.dmz_enable),
                     !.RouterIP = DecodeField(@, src.router_ip)]
    ELSE cfg

\* The error readConfig returns: nil ("ok") or the kind of failure.
ReadError(src) ==
    IF src.kind # "object" THEN src.kind
    ELSE IF BadType \in {src.server_port, src.dmz_enable, src.router_ip}
         THEN "typeerror" ELSE "ok"

\* readConfig's effect on the record.
ReadConfigResult(cfg, src) ==
    IF src.kind \in {"absent", "unreadable"}
    THEN WithDefaults(cfg)
    ELSE Unmarshal(WithDefaults(cfg), src)

(***************************************************************************)
(* http.ResponseWriter as the handler uses it.  The first Write commits    *)
(* status 200 and the headers set so far; a WriteHeader after that is      *)
(* superfluous and ignored.                                                *)
(***************************************************************************)
StatusOK == 200
StatusSeeOther == 303

NewWriter == [wroteHeader |-> FALSE, status |-> 0, location |-> "",
              sentLocation |-> "", body |-> <<>>]

WriteHeader(w, code) ==
    IF w.wroteHeader THEN w
    ELSE [w EXCEPT !.wroteHeader = TRUE, !.status = code,
                   !.sentLocation = w.location]

\* fmt.Fprintf(w, ...): w.Write of the formatted pieces
Fprintf(w, pieces) ==
    LET w1 == WriteHeader(w, StatusOK)
    IN [w1 EXCEPT !.body = w1.body \o pieces]

\* http.Redirect for a POST request: sets Location, writes the status; the
\* short HTML body is written for GET and HEAD only.
Redirect(w, url, code) ==
    WriteHeader([w EXCEPT !.location = url], code)

\* The server finishing the request after the handler returns.
FinishRequest(w) == WriteHeader(w, StatusOK)

\* "DMZ enable state must be 0 or 1, kept the previous value: " (main.go:122)
WarnText == "dmz-must-be-0-or-1-kept:"
\* "operation failed: " (main.go:132)
FailText == "operation-failed:"
\* "error: ", "request error: ", "read response error: " (main.go:81,88,94)
RequestErrText == "request-error"
ReadErrText == "read-response-error"

(***************************************************************************)
(* sendRequest and the POST branch of handler, statement by statement.     *)
(* Each step takes the Settings record and the handler's locals l and      *)
(* returns both as [cfg |-> ..., l |-> ...].                               *)
(***************************************************************************)
Ipv6Inputs == {<<"O", "N">>, <<"o", "f", "f">>, <<"A", "u", "t", "o">>}
DmzInputs == {"0", "1", "5"}
Stoks == {"abc"}
DestIPs == {"192.168.0.102"}
DestIP6s == {"240e::1"}

\* r.FormValue of the six fields of a submitted form
Forms ==
    [router_ip : RouterIPs, stok : Stoks, ipv6_firewall_enable : Ipv6Inputs,
     dmz_enable : DmzInputs, dmz_dest_ip : DestIPs, dmz_dest_ip6 : DestIP6s]

NoForm ==
    [router_ip |-> "", stok |-> "", ipv6_firewall_enable |-> <<>>,
     dmz_enable |-> "", dmz_dest_ip |-> "", dmz_dest_ip6 |-> ""]

\* What http.Post and reading the response can come to: a transport error,
\* an error reading the body, or a response with a status and a body.
RouterOutcomes ==
    {[kind |-> "neterr", status |-> 0, body |-> ""],
     [kind |-> "readerr", status |-> 200, body |-> ""]}
    \cup [kind : {"resp"}, status : {200, 401}, body : {"{\"error_code\":0}"}]

\* RequestBody with the DMZ flag fixed to "1" instead of read from Settings.
RequestBody_EnableFixed(cfg) ==
    [enable |-> "1", dest_ip |-> cfg.DmzDestIP, wan_port |-> "0",
     dest_ip6 |-> cfg.DmzDestIP6, ipv6_enable |-> cfg.IPv6FirewallEnable,
     method |-> "set"]

\* The JSON command sendRequest builds from the Settings record.
RequestBody(cfg) ==
    [enable |-> cfg.DmzEnable, dest_ip |-> cfg.DmzDestIP, wan_port |-> "0",
     dest_ip6 |-> cfg.DmzDestIP6, ipv6_enable |-> cfg.IPv6FirewallEnable,
     method |-> "set"]

\* fmt.Sprintf("http://%s/stok=%s/ds", config.RouterIP, config.Stok)
RequestURL(cfg) == <<"http://", cfg.RouterIP, "/stok=", cfg.Stok, "/ds">>

NoCommand == [sent |-> FALSE]

\* sendRequest: (success, message) and, for the record, what went out.
sendRequest(cfg, outcome) ==
    [ok |-> outcome.kind = "resp" /\ outcome.status = StatusOK,
     message |-> CASE outcome.kind = "neterr" -> RequestErrText
                   [] outcome.kind = "readerr" -> ReadErrText
                   [] OTHER -> outcome.body,
     command |-> [sent |-> TRUE, body |-> RequestBody(cfg), url |-> RequestURL(cfg)]]

\* The handler's locals when a POST arrives.
NewLocals(form) ==
    [pc |-> "router_ip", form |-> form, w |-> NewWriter, entryDmz |-> "",
     ok |-> FALSE, message |-> "", command |-> NoCommand, overlapped |-> FALSE]

IdleLocals == [NewLocals(NoForm) EXCEPT !.pc = "idle"]

\* config.RouterIP = r.FormValue("router_ip"): the handler's first write
StoreRouterIP(s) ==
    [cfg |-> [s.cfg EXCEPT !.RouterIP = s.l.form.router_ip],
     l |-> [s.l EXCEPT !.pc = "stok", !.entryDmz = s.cfg.DmzEnable]]

\* config.Stok = r.FormValue("stok")
StoreStok(s) ==
    [cfg |-> [s.cfg EXCEPT !.Stok = s.l.form.stok],
     l |-> [s.l EXCEPT !.pc = "ipv6"]]

\* the switch on strings.ToLower(r.FormValue("ipv6_firewall_enable"))
StoreIPv6(s) ==
    LET ipv6Firewall == ToLower(s.l.form.ipv6_firewall_enable)
    IN [cfg |-> [s.cfg EXCEPT !.IPv6FirewallEnable =
                     CASE ipv6Firewall = On -> On
                       [] ipv6Firewall = Off -> Off
                       [] OTHER -> ipv6Firewall],
        l |-> [s.l EXCEPT !.pc = "dmz"]]

ValidDmz(v) == v = "0" \/ v = "1"

\* The warning line written for a rejected dmz_enable.
Warning(value) == <<WarnText, value, "<br>">>

\* StoreDmz without the check: whatever was submitted is stored.
StoreDmz_NoValidation(s) ==
    [cfg |-> [s.cfg EXCEPT !.DmzEnable = s.l.form.dmz_enable],
     l |-> [s.l EXCEPT !.pc = "dest_ip"]]

\* StoreDmz that keeps the old value of a rejected input without saying so.
StoreDmz_SilentRetain(s) ==
    [cfg |-> IF ValidDmz(s.l.form.dmz_enable)
             THEN [s.cfg EXCEPT !.DmzEnable = s.l.form.dmz_enable]
             ELSE s.cfg,
     l |-> [s.l EXCEPT !.pc = "dest_ip"]]

\* dmz_enable: stored when "0" or "1", otherwise a warning naming the value kept
StoreDmz(s) ==
    IF ValidDmz(s.l.form.dmz_enable)
    THEN [cfg |-> [s.cfg EXCEPT !.DmzEnable = s.l.form.dmz_enable],
          l |-> [s.l EXCEPT !.pc = "dest_ip"]]
    ELSE [cfg |-> s.cfg,
          l |-> [s.l EXCEPT !.pc = "dest_ip",
                            !.w = Fprintf(s.l.w, Warning(s.cfg.DmzEnable))]]

\* config.DmzDestIP = r.FormValue("dmz_dest_ip")
StoreDestIP(s) ==
    [cfg |-> [s.cfg EXCEPT !.DmzDestIP = s.l.form.dmz_dest_ip],
     l |-> [s.l EXCEPT !.pc = "dest_ip6"]]

\* config.DmzDestIP6 = r.FormValue("dmz_dest_ip6")
StoreDestIP6(s) ==
    [cfg |-> [s.cfg EXCEPT !.DmzDestIP6 = s.l.form.dmz_dest_ip6],
     l |-> [s.l EXCEPT !.pc = "send"]]

\* success, message := sendRequest()
CallSend(s, outcome) ==
    LET r == sendRequest(s.cfg, outcome)
    IN [cfg |-> s.cfg,
        l |-> [s.l EXCEPT !.pc = "respond", !.ok = r.ok, !.message = r.message,
                          !.command = r.command]]

\* The failure line written when sendRequest reports failure.
Failure(message) == <<FailText, message>>

\* Respond redirecting with 302 Found instead of 303 See Other.
Respond_Found(s) ==
    [cfg |-> s.cfg,
     l |-> [s.l EXCEPT !.pc = "done",
                       !.w = FinishRequest(
                                IF s.l.ok
                                THEN Redirect(s.l.w, "/success", 302)
                                ELSE Fprintf(s.l.w, Failure(s.l.message)))]]

\* if success { http.Redirect(..., 303) } else { fmt.Fprintf(w, failure) },
\* then the handler returns
Respond(s) ==
    [cfg |-> s.cfg,
     l |-> [s.l EXCEPT !.pc = "done",
                       !.w = FinishRequest(
                                IF s.l.ok
                                THEN Redirect(s.l.w, "/success", StatusSeeOther)
                                ELSE Fprintf(s.l.w, Failure(s.l.message)))]]

\* The whole POST branch, run without interruption.
RunPost(cfg, form, outcome) ==
    Respond(CallSend(StoreDestIP6(StoreDestIP(StoreDmz(StoreIPv6(StoreStok(
        StoreRouterIP([cfg |-> cfg, l |-> NewLocals(form)])))))), outcome))

\* The GET branch: the form template executed over the Settings record.
RenderForm(cfg) ==
    Fprintf(NewWriter, <<"<form>", cfg.RouterIP, cfg.Stok, cfg.IPv6FirewallEnable,
                         cfg.DmzEnable, cfg.DmzDestIP, cfg.DmzDestIP6>>)

\* What the browser receives.
Delivered(w) == [status |-> w.status, location |-> w.sentLocation, body |-> w.body]

NoRequest ==
    [method |-> "none", form |-> NoForm, before |-> ZeroConfig,
     ok |-> FALSE, message |-> "", command |-> NoCommand,
     resp |-> Delivered(NewWriter)]

(***************************************************************************)
(* The supervisor's initial state, shared by the specifications that do    *)
(* not move it.                                                            *)
(***************************************************************************)
MaxLaunch == 3
Pids == 1..MaxLaunch

SupervisorInit ==
    /\ GOOS \in {"windows", "linux"}
    /\ childProcess = 0
    /\ processGroup = 0
    /\ mu = FALSE
    /\ lpc = "idle"
    /\ launches = 0
    /\ proc = [p \in Pids |-> "none"]
    /\ wpc = [p \in Pids |-> "none"]
    /\ mainPc = "scan"
    /\ serverQuit = FALSE
    /\ tornDown = {}
    /\ staleActs = {}

NumConns == 2
Conns == 1..NumConns

(***************************************************************************)
(* SpecSettings: readConfig, then GET and POST requests one at a time.     *)
(***************************************************************************)
SettingsInit ==
    /\ config = ZeroConfig
    /\ loaded = FALSE
    /\ cfgKind = "none"
    /\ last = NoRequest
    /\ h = [c \in Conns |-> IdleLocals]

\* main: readConfig("config.json")
ReadConfig ==
    /\ ~loaded
    /\ \E src \in ConfigSources :
          /\ config' = ReadConfigResult(config, src)
          /\ cfgKind' = ReadError(src)
    /\ loaded' = TRUE
    /\ UNCHANGED <<last, h>>
    /\ UNCHANGED supervisorVars

\* handler, r.Method is GET
Get ==
    /\ loaded
    /\ last' = [NoRequest EXCEPT !.method = "GET", !.before = config,
                                 !.resp = Delivered(RenderForm(config))]
    /\ UNCHANGED <<config, loaded, cfgKind, h>>
    /\ UNCHANGED supervisorVars

\* handler, r.Method is POST
Post ==
    /\ loaded
    /\ \E form \in Forms, outcome \in RouterOutcomes :
          LET r == RunPost(config, form, outcome)
          IN /\ config' = r.cfg
             /\ last' = [method |-> "POST", form |-> form, before |-> config,
                         ok |-> r.l.ok, message |-> r.l.message,
                         command |-> r.l.command, resp |-> Delivered(r.l.w)]
    /\ UNCHANGED <<loaded, cfgKind, h>>
    /\ UNCHANGED supervisorVars

InitSettings == SettingsInit /\ SupervisorInit /\ GOOS = "windows"

NextSettings == ReadConfig \/ Get \/ Post

SpecSettings == InitSettings /\ [][NextSettings]_vars

(***************************************************************************)
(* Claims about Settings and the form handler (SpecSettings).              *)
(***************************************************************************)
\* pieces occurs in body as a run of consecutive elements
Contains(body, pieces) ==
    \E i \in 1..Len(body) :
        /\ i + Len(pieces) - 1 <= Len(body)
        /\ SubSeq(body, i, i + Len(pieces) - 1) = pieces

IsRedirect(resp) == resp.status = StatusSeeOther /\ resp.location = "/success"

LastPostInvalidDmz == last.method = "POST" /\ ~ValidDmz(last.form.dmz_enable)

\* C2: after config load and any sequence of requests, Settings.DmzEnable is
\* exactly "0" or "1".
C2_DmzEnableIsFlag == loaded => config.DmzEnable \in {"0", "1"}

\* C8: after config load the server port is never empty, and it is "8080"
\* whenever the file is absent, unreadable or not valid JSON.
C8_ServerPortNonEmpty ==
    loaded =>
        /\ config.ServerPort # ""
        /\ cfgKind \in {"absent", "unreadable", "syntax", "nonobject"}
               => config.ServerPort = "8080"

\* C5 as stated: for every POST, router success gives a 303 redirect to
\* /success, router failure gives no redirect and a body holding the failure
\* text with the Router Client's message.
C5_SuccessAlwaysRedirects ==
    last.method = "POST" =>
        /\ last.ok => IsRedirect(last.resp)
        /\ ~last.ok => /\ last.resp.status # StatusSeeOther
                       /\ Contains(last.resp.body, Failure(last.message))

\* C5 amended: on router success a POST whose dmz_enable is "0" or "1" is
\* answered by a 303 redirect to /success; one whose dmz_enable is rejected is
\* answered with status 200, no Location, and the warning as its whole body;
\* on router failure the answer is status 200, no Location, and a body
\* holding the failure text with the Router Client's message.
C5_RedirectUnlessWarned ==
    last.method = "POST" =>
        /\ (last.ok /\ ValidDmz(last.form.dmz_enable)) => IsRedirect(last.resp)
        /\ (last.ok /\ ~ValidDmz(last.form.dmz_enable)) =>
               /\ last.resp.status = StatusOK
               /\ last.resp.location = ""
               /\ last.resp.body = Warning(last.before.DmzEnable)
        /\ ~last.ok => /\ last.resp.status = StatusOK
                       /\ last.resp.location = ""
                       /\ Contains(last.resp.body, Failure(last.message))

\* A POST with a rejected dmz_enable that the router accepted.
C5_Witness ==
    /\ LastPostInvalidDmz
    /\ last.ok
    /\ last.resp.status = StatusOK

C7_InvalidDmzNeverRedirects ==
    LastPostInvalidDmz =>
        /\ last.resp.status # StatusSeeOther
        /\ last.resp.location = ""
        /\ Contains(last.resp.body, Warning(last.before.DmzEnable))

\* A rejected dmz_enable whose router call succeeded, answered with the
\* warning alone.
C7_Witness ==
    /\ LastPostInvalidDmz
    /\ last.form.dmz_enable = "5"
    /\ last.ok
    /\ last.resp.body = Warning(last.before.DmzEnable)

(***************************************************************************)
(* SpecRace: net/http serves each connection on its own goroutine, so the  *)
(* statements of handler on different connections interleave.  Settings    *)
(* starts as readConfig leaves it when there is no config file.  Two forms *)
(* are submitted: one with an accepted dmz_enable and an empty router      *)
(* address, one with a rejected dmz_enable and a router address.           *)
(***************************************************************************)
RaceForms ==
    {f \in Forms : /\ f.ipv6_firewall_enable = <<"O", "N">>
                   /\ f.dmz_enable \in {"0", "5"}
                   /\ (f.router_ip = "") = (f.dmz_enable = "0")}

\* The router answers 200, or cannot be reached.
RaceOutcomes ==
    {o \in RouterOutcomes : o.kind = "neterr" \/ (o.kind = "resp" /\ o.status = 200)}

\* Between the handler's first write to Settings and its Router Client call.
InWindow(l) == l.pc \in {"stok", "ipv6", "dmz", "dest_ip", "dest_ip6", "send"}

\* Connection c's handler takes a step to r; a step that writes Settings
\* overlaps every other handler that is in its window.
RaceStep(c, r, writes) ==
    /\ config' = r.cfg
    /\ h' = [d \in Conns |->
                IF d = c THEN r.l
                ELSE IF writes /\ InWindow(h[d])
                     THEN [h[d] EXCEPT !.overlapped = TRUE]
                     ELSE h[d]]
    /\ UNCHANGED <<loaded, cfgKind, last>>
    /\ UNCHANGED supervisorVars

Here(c) == [cfg |-> config, l |-> h[c]]

\* A POST arrives on connection c; its previous request, if any, is over.
RaceArrive(c) ==
    /\ h[c].pc \in {"idle", "done"}
    /\ \E form \in RaceForms :
          RaceStep(c, [cfg |-> config, l |-> NewLocals(form)], FALSE)

RaceStoreRouterIP(c) ==
    /\ h[c].pc = "router_ip"
    /\ RaceStep(c, StoreRouterIP(Here(c)), TRUE)

RaceStoreStok(c) ==
    /\ h[c].pc = "stok"
    /\ RaceStep(c, StoreStok(Here(c)), TRUE)

RaceStoreIPv6(c) ==
    /\ h[c].pc = "ipv6"
    /\ RaceStep(c, StoreIPv6(Here(c)), TRUE)

RaceStoreDmz(c) ==
    /\ h[c].pc = "dmz"
    /\ RaceStep(c, StoreDmz(Here(c)), ValidDmz(h[c].form.dmz_enable))

RaceStoreDestIP(c) ==
    /\ h[c].pc = "dest_ip"
    /\ RaceStep(c, StoreDestIP(Here(c)), TRUE)

RaceStoreDestIP6(c) ==
    /\ h[c].pc = "dest_ip6"
    /\ RaceStep(c, StoreDestIP6(Here(c)), TRUE)

RaceSend(c) ==
    /\ h[c].pc = "send"
    /\ \E outcome \in RaceOutcomes :
          RaceStep(c, CallSend(Here(c), outcome), FALSE)

RaceRespond(c) ==
    /\ h[c].pc = "respond"
    /\ RaceStep(c, Respond(Here(c)), FALSE)

InitRace ==
    /\ config = ReadConfigResult(ZeroConfig, [kind |-> "absent"])
    /\ loaded = TRUE
    /\ cfgKind = "absent"
    /\ last = NoRequest
    /\ h = [c \in Conns |-> IdleLocals]
    /\ SupervisorInit
    /\ GOOS = "windows"

NextRace ==
    \E c \in Conns :
        \/ RaceArrive(c)
        \/ RaceStoreRouterIP(c)
        \/ RaceStoreStok(c)
        \/ RaceStoreIPv6(c)
        \/ RaceStoreDmz(c)
        \/ RaceStoreDestIP(c)
        \/ RaceStoreDestIP6(c)
        \/ RaceSend(c)
        \/ RaceRespond(c)

SpecRace == InitRace /\ [][NextRace]_vars

\* The command built from a submission's own stored values: its form fields,
\* and for a rejected dmz_enable the value Settings held when it began.
OwnCommand(l) ==
    LET own == [RouterIP |-> l.form.router_ip, Stok |-> l.form.stok,
                IPv6FirewallEnable |-> ToLower(l.form.ipv6_firewall_enable),
                DmzDestIP |-> l.form.dmz_dest_ip,
                DmzDestIP6 |-> l.form.dmz_dest_ip6,
                ServerPort |-> config.ServerPort,
                DmzEnable |-> IF ValidDmz(l.form.dmz_enable)
                              THEN l.form.dmz_enable ELSE l.entryDmz]
    IN [sent |-> TRUE,
        body |-> [enable |-> own.DmzEnable, dest_ip |-> own.DmzDestIP,
                  wan_port |-> "0", dest_ip6 |-> own.DmzDestIP6,
                  ipv6_enable |-> own.IPv6FirewallEnable, method |-> "set"],
        url |-> <<"http://", own.RouterIP, "/stok=", own.Stok, "/ds">>]

SentOwn(c) == h[c].command.sent => h[c].command = OwnCommand(h[c])

\* C9 as stated: no two submit handlers are at once between their first
\* write to Settings and their Router Client call, and the command each
\* submission sends is built only from its own stored values.
C9_OneWriterAtATime ==
    /\ \A c \in Conns, d \in Conns :
          c # d => ~(InWindow(h[c]) /\ InWindow(h[d]))
    /\ \A c \in Conns : SentOwn(c)

\* C9 amended: handlers on different connections may be between their first
\* write and their Router Client call at once (last write wins); a submission
\* during whose window no other handler wrote Settings sends a command built
\* only from its own stored values.
C9_UnoverlappedSendsOwn ==
    \A c \in Conns : ~h[c].overlapped => SentOwn(c)

\* One submission sent its own values undisturbed, another sent a command
\* mixed with values a concurrent handler wrote.
C9_Witness ==
    \E c \in Conns, d \in Conns :
        /\ c # d
        /\ h[c].command.sent /\ ~h[c].overlapped
        /\ h[d].command.sent /\ h[d].overlapped
        /\ h[d].command # OwnCommand(h[d])

(***************************************************************************)
(* SpecSupervisor: openBrowser / safeExecCommand called up to MaxLaunch    *)
(* times, cleanupProcesses inside it, one watcher goroutine per spawned    *)
(* process, the spawned processes themselves, and main's shutdown.         *)
(* A process is "running", then "exited" (terminated, not yet waited for), *)
(* then "reaped" (cmd.Wait has returned; its pid is free for reuse).       *)
(***************************************************************************)
Running == mainPc # "exited"

\* The process a new cmd.Start() creates: the first unused one.
NextPid == CHOOSE p \in Pids : proc[p] = "none" /\ \A q \in Pids : q < p => proc[q] # "none"

\* A teardown step op acting on process p: noted when p was already reaped.
Act(op, p) ==
    IF proc[p] = "reaped" THEN staleActs \cup {<<op, p>>} ELSE staleActs

\* openBrowser: on windows calls safeExecCommand, which waits for mu;
\* elsewhere returns the unsupported-system error.
OpenBrowser ==
    /\ Running
    /\ lpc = "idle"
    /\ launches < MaxLaunch
    /\ launches' = launches + 1
    /\ lpc' = IF GOOS = "windows" THEN "lock" ELSE "idle"
    /\ UNCHANGED <<GOOS, childProcess, processGroup, mu, proc, wpc, mainPc,
                   serverQuit, tornDown, staleActs>>
    /\ UNCHANGED settingsVars

\* safeExecCommand: mu.Lock()
LaunchLock ==
    /\ Running
    /\ lpc = "lock"
    /\ ~mu
    /\ mu' = TRUE
    /\ lpc' = "cleanup"
    /\ UNCHANGED <<GOOS, childProcess, processGroup, launches, proc, wpc, mainPc,
                   serverQuit, tornDown, staleActs>>
    /\ UNCHANGED settingsVars

\* cleanupProcesses: the test of childProcess, and childProcess.Signal(os.Interrupt)
CleanupInterrupt ==
    /\ Running
    /\ lpc = "cleanup"
    /\ IF childProcess # 0
       THEN /\ staleActs' = Act("interrupt", childProcess)
            /\ lpc' = "kill"
       ELSE /\ staleActs' = staleActs
            /\ lpc' = "start"
    /\ UNCHANGED <<GOOS, childProcess, processGroup, mu, launches, proc, wpc,
                   mainPc, serverQuit, tornDown>>
    /\ UNCHANGED settingsVars

\* cleanupProcesses: after the one-second sleep, childProcess.Signal(os.Kill);
\* the kill terminates a process that is still running.
CleanupKill ==
    /\ Running
    /\ lpc = "kill"
    /\ staleActs' = Act("kill", childProcess)
    /\ proc' = [proc EXCEPT ![childProcess] = IF @ = "running" THEN "exited" ELSE @]
    /\ tornDown' = tornDown \cup {childProcess}
    /\ lpc' = "group"
    /\ UNCHANGED <<GOOS, childProcess, processGroup, mu, launches, wpc, mainPc,
                   serverQuit>>
    /\ UNCHANGED settingsVars

\* cleanupProcesses: on windows OpenProcess(processGroup) and TerminateProcess,
\* then childProcess = nil, processGroup = 0
CleanupGroup ==
    /\ Running
    /\ lpc = "group"
    /\ IF GOOS = "windows" /\ processGroup > 0
       THEN /\ staleActs' = Act("open", processGroup)
            /\ proc' = [proc EXCEPT ![processGroup] =
                                        IF @ = "running" THEN "exited" ELSE @]
       ELSE UNCHANGED <<staleActs, proc>>
    /\ childProcess' = 0
    /\ processGroup' = 0
    /\ lpc' = "start"
    /\ UNCHANGED <<GOOS, mu, launches, wpc, mainPc, serverQuit, tornDown>>
    /\ UNCHANGED settingsVars

\* safeExecCommand: cmd.Start() fails, the error is returned (mu unlocked)
StartFails ==
    /\ Running
    /\ lpc = "start"
    /\ mu' = FALSE
    /\ lpc' = "idle"
    /\ UNCHANGED <<GOOS, childProcess, processGroup, launches, proc, wpc, mainPc,
                   serverQuit, tornDown, staleActs>>
    /\ UNCHANGED settingsVars

\* safeExecCommand: cmd.Start() succeeds, the handle and the group id are
\* saved, the watcher goroutine is started, mu is unlocked
StartAndTrack ==
    /\ Running
    /\ lpc = "start"
    /\ LET p == NextPid
       IN /\ proc' = [proc EXCEPT ![p] = "running"]
          /\ childProcess' = p
          /\ processGroup' = IF GOOS = "windows" THEN p ELSE processGroup
          /\ wpc' = [wpc EXCEPT ![p] = "wait"]
    /\ mu' = FALSE
    /\ lpc' = "idle"
    /\ UNCHANGED <<GOOS, launches, mainPc, serverQuit, tornDown, staleActs>>
    /\ UNCHANGED settingsVars

\* A spawned process ends by itself (the browser launcher has done its work).
ProcessExits(p) ==
    /\ proc[p] = "running"
    /\ proc' = [proc EXCEPT ![p] = "exited"]
    /\ UNCHANGED <<GOOS, childProcess, processGroup, mu, lpc, launches, wpc,
                   mainPc, serverQuit, tornDown, staleActs>>
    /\ UNCHANGED settingsVars

\* The watcher goroutine of p: cmd.Wait() returns
WatcherWait(p) ==
    /\ Running
    /\ wpc[p] = "wait"
    /\ proc[p] = "exited"
    /\ proc' = [proc EXCEPT ![p] = "reaped"]
    /\ wpc' = [wpc EXCEPT ![p] = "lock"]
    /\ UNCHANGED <<GOOS, childProcess, processGroup, mu, lpc, launches, mainPc,
                   serverQuit, tornDown, staleActs>>
    /\ UNCHANGED settingsVars

\* The watcher goroutine of p: mu.Lock(); childProcess = nil;
\* processGroup = 0; mu.Unlock()
WatcherClear(p) ==
    /\ Running
    /\ wpc[p] = "lock"
    /\ ~mu
    /\ childProcess' = 0
    /\ processGroup' = 0
    /\ wpc' = [wpc EXCEPT ![p] = "done"]
    /\ UNCHANGED <<GOOS, mu, lpc, launches, proc, mainPc, serverQuit, tornDown,
                   staleActs>>
    /\ UNCHANGED settingsVars

\* main: scanner.Scan() returns, the operator's line was read
ReadLine ==
    /\ mainPc = "scan"
    /\ mainPc' = "close"
    /\ UNCHANGED <<GOOS, childProcess, processGroup, mu, lpc, launches, proc, wpc,
                   serverQuit, tornDown, staleActs>>
    /\ UNCHANGED settingsVars

\* main: close(serverQuit), then the 500ms sleep begins
CloseServerQuit ==
    /\ mainPc = "close"
    /\ serverQuit' = TRUE
    /\ mainPc' = "sleep"
    /\ UNCHANGED <<GOOS, childProcess, processGroup, mu, lpc, launches, proc, wpc,
                   tornDown, staleActs>>
    /\ UNCHANGED settingsVars

\* main: os.Exit(0).  The process ends at once; the deferred cleanup() is
\* not run, since deferred calls run when main returns and os.Exit does not
\* return.
Exit ==
    /\ mainPc = "sleep"
    /\ mainPc' = "exited"
    /\ UNCHANGED <<GOOS, childProcess, processGroup, mu, lpc, launches, proc, wpc,
                   serverQuit, tornDown, staleActs>>
    /\ UNCHANGED settingsVars

InitSupervisor ==
    /\ SupervisorInit
    /\ config = ReadConfigResult(ZeroConfig, [kind |-> "absent"])
    /\ loaded = TRUE
    /\ cfgKind = "absent"
    /\ last = NoRequest
    /\ h = [c \in Conns |-> IdleLocals]

NextSupervisor ==
    \/ OpenBrowser
    \/ LaunchLock
    \/ CleanupInterrupt
    \/ CleanupKill
    \/ CleanupGroup
    \/ StartFails
    \/ StartAndTrack
    \/ \E p \in Pids : ProcessExits(p)
    \/ \E p \in Pids : WatcherWait(p)
    \/ \E p \in Pids : WatcherClear(p)
    \/ ReadLine
    \/ CloseServerQuit
    \/ Exit

SpecSupervisor == InitSupervisor /\ [][NextSupervisor]_vars

(***************************************************************************)
(* Claims about the process supervisor and shutdown (SpecSupervisor).      *)
(***************************************************************************)
\* C1: once the operator's line is read the shutdown signal is closed, the
\* teardown runs on any child still tracked, and only then the process
\* exits: at exit no child process is tracked.
C1_ExitAfterTeardown ==
    mainPc = "exited" => (serverQuit /\ childProcess = 0)

\* C3: a process spawned by launch that is still running and has not been
\* torn down is the one the tracked handle identifies.
C3_RunningProcessIsTracked ==
    \A p \in Pids : (proc[p] = "running" /\ p \notin tornDown) => childProcess = p

\* C4: at no time are two processes spawned by launch both still running.
C4_AtMostOneRunning ==
    Cardinality({p \in Pids : proc[p] = "running"}) <= 1

\* C10: teardown never signals, nor opens by pid, a process whose Wait has
\* already returned.
C10_TeardownActsOnLiveHandle == staleActs = {}

====
